---------------------------- MODULE Spec2Model ----------------------------
(***************************************************************************)
(* The grid-trading engine of the HTX bot (modules/grid/grid_trading.py)   *)
(* with its two callers: the front-end handler thread (create_grid,        *)
(* stop_grid) and the scheduler job check_monitors (update_grid for each   *)
(* active pair).  The order gateway and the price oracle are the           *)
(* environment.                                                            *)
(*                                                                         *)
(* Prices of grid levels are integers in units of 0.0001 (round(price, 4) *)
(* in the source); prices of replacement orders are exact rationals        *)
(* [n, d] in the same unit.  Arithmetic is exact, except where the binary  *)
(* rounding of Python floats decides a branch: round() on an exact decimal *)
(* tie may go either way, and a comparison against a float product or      *)
(* quotient that is exactly on its threshold goes the way the float        *)
(* operation rounds for the inputs at hand (tabulated below).              *)
(***************************************************************************)
EXTENDS Integers, Sequences, FiniteSets, TLC

\* ------------------------------------------------------------------ bounds
MaxCreates == 2     \* create_grid calls that register a config
MaxFills == 2       \* orders the exchange fills
MaxJobs == 1        \* runs of the scheduler job
MaxSaveFails == 1   \* failed writes of data/grids/configs.json
MaxHigh == 104      \* largest upper bound of the create_grid inputs
MinLow == 96        \* smallest lower bound of the create_grid inputs
MaxGridCount == 4   \* largest grid_count of the create_grid inputs
MaxStoredTrades == 1 \* largest completed_trades of a config found in the store
MaxAlerts == 3      \* alerts the monitor holds at a time

Pairs == {"btcusdt", "ethusdt"}
Threads == {"fe", "sc"}

\* ------------------------------------------------------- program constants
BuyBandNum == 99          \* price < current_price * 0.99
SellBandNum == 101        \* price > current_price * 1.01
BandDen == 100
SellMarginNum == 1005     \* new_price = order['price'] * 1.005
BuyMarginNum == 995       \* new_price = order['price'] * 0.995
MarginDen == 1000
ProfitDen == 1000         \* profit = amount * price * 0.001
DriftDen == 20            \* abs(new - bound) / bound > 0.05

\* ------------------------------------------------------------- arithmetic
RECURSIVE GCD(_, _)
GCD(a, b) == IF b = 0 THEN a ELSE GCD(b, a % b)

Rat(n, d) == [n |-> n, d |-> d]
RInt(n) == Rat(n, 1)
RZero == Rat(0, 1)

\* (p.n / p.d) * (a / b), cancelling before multiplying
RMul(p, a, b) ==
    LET g1 == GCD(p.n, b)
        g2 == GCD(a, p.d)
        h1 == IF g1 = 0 THEN 1 ELSE g1
        h2 == IF g2 = 0 THEN 1 ELSE g2
    IN  Rat((p.n \div h1) * (a \div h2), (p.d \div h2) * (b \div h1))

RAdd(p, q) ==
    LET g == GCD(p.d, q.d)
        n == p.n * (q.d \div g) + q.n * (p.d \div g)
        d == (p.d \div g) * q.d
        h == GCD(n, d)
    IN  Rat(n \div h, d \div h)

RLess(p, q) == p.n * q.d < q.n * p.d

\* sign of 100 * p - k * c without forming the products of large numbers
BandCmp(p, c, k) ==
    LET q == c \div BandDen
        r == c % BandDen
        x == p - k * q
    IN  IF x < 0 THEN -1
        ELSE IF x >= k THEN 1
        ELSE IF BandDen * x < k * r THEN -1
        ELSE IF BandDen * x > k * r THEN 1
        ELSE 0

\* The current prices c of the inputs below, in units of 0.0001, for which the
\* float product differs from the exact one when 0.99 * c or 1.01 * c is a
\* multiple of 0.0001: 1.62 * 0.99 evaluates to 1.6038000000000001 (above
\* 1.6038) and 0.85 * 1.01 to 0.8584999999999999 (below 0.8585).  For 0.01,
\* 34300 and 35000 both products are exact.
ProductAbove99 == {16200}
ProductBelow101 == {8500}

\* price < current_price * 0.99
BelowBand(p, c) ==
    \/ BandCmp(p, c, BuyBandNum) < 0
    \/ BandCmp(p, c, BuyBandNum) = 0 /\ c \in ProductAbove99
\* price > current_price * 1.01
AboveBand(p, c) ==
    \/ BandCmp(p, c, SellBandNum) > 0
    \/ BandCmp(p, c, SellBandNum) = 0 /\ c \in ProductBelow101

\* round(lower + a / b, 4) - lower, in units of 0.0001; up decides a tie
RoundDiv(a, b, up) ==
    LET q == a \div b
        r == a % b
    IN  IF 2 * r < b THEN q
        ELSE IF 2 * r > b THEN q + 1
        ELSE IF up THEN q + 1 ELSE q

\* the levels whose exact value lies half-way between two multiples of 0.0001
TieIdx(price_upper, price_lower, grid_count) ==
    {i \in 0..grid_count : 2 * (((price_upper - price_lower) * i) % grid_count) = grid_count}

\* (range(grid_count) in place of range(grid_count + 1))
_calculate_grid_prices_short(price_upper, price_lower, grid_count, up) ==
    [j \in 1..grid_count |->
        price_lower + RoundDiv((price_upper - price_lower) * (j - 1), grid_count, (j - 1) \in up)]
\* prices[i] = round(price_lower + price_diff * i, 4) for i in range(grid_count + 1)
_calculate_grid_prices(price_upper, price_lower, grid_count, up) ==
    [j \in 1..(grid_count + 1) |->
        price_lower + RoundDiv((price_upper - price_lower) * (j - 1), grid_count, (j - 1) \in up)]


\* ------------------------------------------------------------------ inputs
NoRange == [high |-> 0, low |-> 0]        \* None from get_4hour_range / no bounds given
NoTicker == 0                             \* None from get_ticker

\* One create_grid call's inputs: the range (4-hour candle or explicit bounds),
\* grid_count and the ticker's close.
In(high, low, grid_count, ticker) ==
    [range |-> [high |-> high, low |-> low], grid_count |-> grid_count, ticker |-> ticker]

\* the worked example: 30000..40000 in 10 intervals at 35000 (and at 34300)
ExampleMenu ==
    {In(400000000, 300000000, 10, 350000000), In(400000000, 300000000, 10, 343000000)}

\* what the callers and the oracle can supply, by scenario
GeneralMenu ==
    {In(102, 98, 4, 100), In(0, 0, 4, 100), In(102, 98, 4, NoTicker),
     In(98, 102, 4, 100), In(102, 98, 4, 105), In(102, 98, 0, 100)}
\* ladders whose end levels lie exactly on the edges of the band
EdgeMenu == {In(8585, 8415, 2, 8500), In(16362, 16038, 2, 16200)}
WideMenu ==
    ExampleMenu \cup EdgeMenu \cup {In(0, 0, 4, 100), In(102, 98, 4, NoTicker)} \cup
    {In(h, l, g, c) : h \in 100..MaxHigh, l \in MinLow..100, g \in 1..MaxGridCount,
                      c \in {99, 100, 101}}
Menu(sc) ==
    IF sc = "wide" THEN WideMenu
    ELSE IF sc \in {"ticks", "pairs"} THEN {In(102, 98, 4, 100)}
    ELSE GeneralMenu
FirstIn(sc) == IF sc = "wide" THEN CHOOSE m \in ExampleMenu : TRUE ELSE In(102, 98, 4, 100)
Amounts(sc) == IF sc \in {"general", "pairs"} THEN {2} ELSE {1, 2}
Symbols(sc) == IF sc = "pairs" THEN Pairs ELSE {"btcusdt"}
\* one grid watched over one more run of the job
Creates(sc) == IF sc = "ticks" THEN 1 ELSE MaxCreates
Jobs(sc) == IF sc = "ticks" THEN MaxJobs + 1 ELSE MaxJobs

\* ------------------------------------------------------------------- state
VARIABLES
    scenario,       \* which inputs the environment draws from
    configs,        \* the config dicts ever created, by object identity
    grid_configs,   \* self.grid_configs: pair -> config object (0: no entry)
    active_grids,   \* self.active_grids: dict entries in insertion order
    store,          \* data/grids/configs.json
    exch,           \* the exchange's orders, by order id
    th,             \* each thread's position and locals
    ret,            \* what the step just taken returned to its caller, if it returned
    job,            \* check_monitors' iterator over grid.active_grids
    terminal,       \* pair stopped and no successful create_grid since
    njobs,          \* runs of check_monitors so far
    nfills,         \* orders the exchange has filled so far
    nfails,         \* writes of the store that have failed so far
    dropped,        \* the replacement orders the gateway has rejected so far
    counted,        \* the orders update_grid has counted as filled so far
    alerts          \* self.alerts of the monitor module

vars == <<scenario, configs, grid_configs, active_grids, store, exch, th, ret,
          job, terminal, njobs, nfills, nfails, dropped, counted, alerts>>

Dummy == [k |-> "", v |-> 0]              \* a deleted dict entry
NoConfig == [symbol |-> ""]               \* no record for the pair
NoStore == [p \in Pairs |-> NoConfig]

IdleTh == [pc |-> "idle", sym |-> "", cfg |-> 0, i |-> 0, list |-> <<>>,
           orders |-> <<>>, new_orders |-> <<>>, completed |-> 0,
           profit |-> RZero, cancelled |-> 0, calls |-> <<>>, log |-> <<>>,
           it |-> [len |-> 0, used |-> 0]]
NoArg == In(0, 0, 0, 0)                   \* no inputs on record
NoRet == [op |-> "none", sym |-> "", tag |-> "none", n |-> 0, m |-> 0, arg |-> NoArg]
Result(op, sym, tag, n, m) ==
    [op |-> op, sym |-> sym, tag |-> tag, n |-> n, m |-> m, arg |-> NoArg]
\* (start: the entries of active_grids when the run began; seen: the pairs
\* update_grid was called for in this run)
NoJob == [running |-> FALSE, pos |-> 0, len |-> 0, used |-> 0, start |-> {}, seen |-> {}]

\* ----------------------------------------------------------- dict helpers
Has(d, k) == \E j \in 1..Len(d) : d[j].k = k
Get(d, k) == d[CHOOSE j \in 1..Len(d) : d[j].k = k].v
Put(d, k, v) ==
    IF Has(d, k)
    THEN [j \in 1..Len(d) |-> IF d[j].k = k THEN [k |-> k, v |-> v] ELSE d[j]]
    ELSE Append(d, [k |-> k, v |-> v])
Del(d, k) == [j \in 1..Len(d) |-> IF d[j].k = k THEN Dummy ELSE d[j]]
Used(d) == Cardinality({j \in 1..Len(d) : d[j] # Dummy})
Keys(d) == {d[j].k : j \in {i \in 1..Len(d) : d[i] # Dummy}}

Start(sc) ==
    /\ scenario = sc
    /\ configs = <<>>
    /\ grid_configs = [p \in Pairs |-> 0]
    /\ active_grids = <<>>
    /\ store = NoStore
    /\ exch = <<>>
    /\ th = [t \in Threads |-> IdleTh]
    /\ ret = NoRet
    /\ job = NoJob
    /\ terminal = [p \in Pairs |-> FALSE]
    /\ njobs = 0
    /\ nfills = 0
    /\ nfails = 0
    /\ dropped = {}
    /\ counted = {}
    /\ alerts = <<>>

\* the bot after construction with no stored configs
Init == Start("general")
\* the same, with create_grid's callers and oracle drawing from the wide menu
InitCreate == Start("wide")
\* the same, with one grid and two runs of the scheduler job
InitTicks == Start("ticks")
\* the same, with grids on two pairs
InitPairs == Start("pairs")
\* the monitor module after construction with no stored alerts
InitMonitor == Start("monitor")


\* ----------------------------------------------------- unreachable objects
\* A config dict no reference reaches any more is garbage: its slot holds Freed.
Freed ==
    [symbol |-> "", grid_count |-> 0, amount_per_grid |-> 0, price_upper |-> 0,
     price_lower |-> 0, current_price |-> 0, grid_prices |-> <<>>, active |-> FALSE,
     total_profit |-> RZero, completed_trades |-> 0, pending_orders |-> <<>>,
     stopped_at |-> FALSE, last_update |-> FALSE]
Referenced(gc, ag, thh) ==
    {gc[p] : p \in Pairs} \cup {ag[j].v : j \in 1..Len(ag)} \cup {thh[t].cfg : t \in Threads}
Sweep(cfgs, gc, ag, thh) ==
    [id \in 1..Len(cfgs) |-> IF id \in Referenced(gc, ag, thh) THEN cfgs[id] ELSE Freed]

\* An order of the exchange whose id the program holds nowhere (no config in
\* memory or in the store, no local list) can no longer be queried or cancelled.
Gone == [sym |-> "", type |-> "", state |-> "gone"]
Ids(list) == {list[j].order_id : j \in 1..Len(list)}
HeldIds(cfgs, st, thh) ==
    UNION ({Ids(cfgs[id].pending_orders) : id \in 1..Len(cfgs)}
           \cup {IF st[p] = NoConfig THEN {} ELSE Ids(st[p].pending_orders) : p \in Pairs}
           \cup {Ids(thh[t].list) \cup Ids(thh[t].orders) \cup Ids(thh[t].new_orders) :
                    t \in Threads})
\* Ids are opaque: the ids above the last one held are issued again.
Settle(ex, cfgs, st, thh) ==
    LET held == HeldIds(cfgs, st, thh) \cap (1..Len(ex))
        top == IF held = {} THEN 0 ELSE CHOOSE x \in held : \A y \in held : y <= x
    IN  [id \in 1..top |-> IF id \in held THEN ex[id] ELSE Gone]

\* The state after a step, with what has become unreachable dropped.
Commit(cfgs, gc, ag, st, ex, thh) ==
    /\ grid_configs' = gc
    /\ active_grids' = ag
    /\ store' = st
    /\ th' = thh
    /\ configs' = Sweep(cfgs, gc, ag, thh)
    /\ exch' = Settle(ex, Sweep(cfgs, gc, ag, thh), st, thh)

\* json.dump(self.grid_configs) in save_grid_configs (lines 436-443)
Dump(cfgs, gc) == [p \in Pairs |-> IF gc[p] = 0 THEN NoConfig ELSE cfgs[gc[p]]]
\* the write succeeds, or raises and leaves the file as it was
SaveOutcomes == IF nfails < MaxSaveFails THEN BOOLEAN ELSE {TRUE}

\* ------------------------------------------------------------ create_grid
\* (the check left out)
IsActiveNever(symbol) == FALSE
\* symbol in self.active_grids and self.active_grids[symbol].get('active')
IsActive(symbol) == Has(active_grids, symbol) /\ configs[Get(active_grids, symbol)].active

\* (a current price on either bound refused as well)
CreateCheckStrict(symbol, use_4h_range, range, ticker, grid_count, symbol_info) ==
    IF Has(active_grids, symbol) /\ configs[Get(active_grids, symbol)].active
    THEN "already_active"
    ELSE IF range = NoRange
    THEN (IF use_4h_range THEN "range_unavailable" ELSE "bounds_missing")
    ELSE IF ticker = NoTicker THEN "ticker_unavailable"
    ELSE IF range.high <= range.low THEN "invalid_range"
    ELSE IF ticker >= range.high \/ ticker <= range.low THEN "price_out_of_range"
    ELSE IF grid_count = 0 THEN "exception"
    ELSE IF ~symbol_info THEN "symbol_info_unavailable"
    ELSE "ok"
\* the checks of create_grid before the config is registered, in source order
CreateCheck(symbol, use_4h_range, range, ticker, grid_count, symbol_info) ==
    IF IsActive(symbol)
    THEN "already_active"
    ELSE IF range = NoRange
    THEN (IF use_4h_range THEN "range_unavailable" ELSE "bounds_missing")
    ELSE IF ticker = NoTicker THEN "ticker_unavailable"
    ELSE IF range.high <= range.low THEN "invalid_range"
    ELSE IF ticker > range.high \/ ticker < range.low THEN "price_out_of_range"
    ELSE IF grid_count = 0 THEN "exception"
    ELSE IF ~symbol_info THEN "symbol_info_unavailable"
    ELSE "ok"

\* (the counter starting at one)
NewConfigCounted(symbol, grid_count, amount_per_grid, range, current_price, up) ==
    [symbol |-> symbol,
     grid_count |-> grid_count,
     amount_per_grid |-> amount_per_grid,
     price_upper |-> range.high,
     price_lower |-> range.low,
     current_price |-> current_price,
     grid_prices |-> _calculate_grid_prices(range.high, range.low, grid_count, up),
     active |-> TRUE,
     total_profit |-> RZero,
     completed_trades |-> 1,
     pending_orders |-> <<>>,
     stopped_at |-> FALSE,
     last_update |-> FALSE]
\* the config dict create_grid builds (lines 101-115)
NewConfig(symbol, grid_count, amount_per_grid, range, current_price, up) ==
    [symbol |-> symbol,
     grid_count |-> grid_count,
     amount_per_grid |-> amount_per_grid,
     price_upper |-> range.high,
     price_lower |-> range.low,
     current_price |-> current_price,
     grid_prices |-> _calculate_grid_prices(range.high, range.low, grid_count, up),
     active |-> TRUE,
     total_profit |-> RZero,
     completed_trades |-> 0,
     pending_orders |-> <<>>,
     stopped_at |-> FALSE,
     last_update |-> FALSE]

\* create_grid up to self.save_grid_configs() (lines 54-120)
CreateGridEnter(t) ==
    /\ t = "fe"
    /\ th[t].pc = "idle"
    \* an input that the path taken does not read is drawn once
    /\ \E symbol \in Symbols(scenario) :
       \E in \in (IF IsActive(symbol) THEN {FirstIn(scenario)} ELSE Menu(scenario)) :
       \E use_4h_range \in (IF in.range = NoRange THEN BOOLEAN ELSE {TRUE}) :
       \E symbol_info \in (IF CreateCheck(symbol, use_4h_range, in.range, in.ticker,
                                in.grid_count, TRUE) = "ok" THEN BOOLEAN ELSE {TRUE}) :
       LET chk == CreateCheck(symbol, use_4h_range, in.range, in.ticker,
                              in.grid_count, symbol_info)
           id == Len(configs) + 1
           gc == [grid_configs EXCEPT ![symbol] = id]
           ag == Put(active_grids, symbol, id)
       IN  IF chk # "ok"
           THEN /\ ret' = [Result("create_grid", symbol, chk, 0, 0) EXCEPT !.arg = in]
                /\ UNCHANGED <<configs, grid_configs, active_grids, store, exch, th,
                               nfails>>
           ELSE /\ Len(configs) < Creates(scenario)
                /\ \E amount_per_grid \in Amounts(scenario), save_ok \in SaveOutcomes,
                      up \in SUBSET TieIdx(in.range.high, in.range.low, in.grid_count) :
                    LET cfgs == Append(configs, NewConfig(symbol, in.grid_count,
                                    amount_per_grid, in.range, in.ticker, up))
                    IN  IF save_ok
                        THEN /\ Commit(cfgs, gc, ag, Dump(cfgs, gc), exch,
                                    [th EXCEPT ![t] = [IdleTh EXCEPT
                                        !.pc = "create_loop", !.sym = symbol,
                                        !.cfg = id, !.i = 1]])
                             /\ ret' = NoRet
                             /\ UNCHANGED nfails
                        ELSE /\ Commit(cfgs, gc, ag, store, exch, th)
                             /\ ret' = Result("create_grid", symbol, "exception", 0, 0)
                             /\ nfails' = nfails + 1
    /\ UNCHANGED <<scenario, alerts, dropped, counted, njobs, job, terminal, nfills>>

Order(order_id, type, price, amount) ==
    [order_id |-> order_id, type |-> type, price |-> price, amount |-> amount,
     status |-> "pending"]
Submitted(symbol, type) == [sym |-> symbol, type |-> type, state |-> "submitted"]

\* the side _create_initial_orders gives a level: "buy", "sell" or "skip"
InitialSide(price, current_price) ==
    IF BelowBand(price, current_price) THEN "buy"
    ELSE IF AboveBand(price, current_price) THEN "sell"
    ELSE "skip"

\* (the order recorded whatever the gateway answered)
RecordedAlways(orders, success, order) == Append(orders, order)
\* if result.get('success'): orders.append({...}) (lines 185-192, 198-205)
Recorded(orders, success, order) == IF success THEN Append(orders, order) ELSE orders

\* one iteration of the loop of _create_initial_orders (lines 182-206): the
\* gateway accepts the order or rejects it
CreateGridPlace(t) ==
    /\ th[t].pc = "create_loop"
    /\ th[t].i <= Len(configs[th[t].cfg].grid_prices)
    /\ LET config == configs[th[t].cfg]
           price == config.grid_prices[th[t].i]
           side == InitialSide(price, config.current_price)
           order == Order(Len(exch) + 1, side, RInt(price), config.amount_per_grid)
       IN  IF side = "skip"
           THEN Commit(configs, grid_configs, active_grids, store, exch,
                       [th EXCEPT ![t].i = @ + 1])
           ELSE \E accepted \in BOOLEAN :
                Commit(configs, grid_configs, active_grids, store,
                       IF accepted THEN Append(exch, Submitted(th[t].sym, side)) ELSE exch,
                       [th EXCEPT ![t].i = @ + 1,
                                  ![t].calls = Append(@, [type |-> side, price |-> price,
                                                          accepted |-> accepted]),
                                  ![t].orders = Recorded(@, accepted, order)])
    /\ ret' = NoRet
    /\ UNCHANGED <<scenario, alerts, dropped, counted, njobs, job, terminal, nfills, nfails>>

\* config['pending_orders'] = initial_orders and the return (lines 124-135)
CreateGridFinish(t) ==
    /\ th[t].pc = "create_loop"
    /\ th[t].i > Len(configs[th[t].cfg].grid_prices)
    /\ Commit([configs EXCEPT ![th[t].cfg].pending_orders = th[t].orders],
              grid_configs, active_grids, store, exch, [th EXCEPT ![t] = IdleTh])
    /\ ret' = Result("create_grid", th[t].sym, "success", Len(th[t].orders), 0)
    /\ terminal' = [terminal EXCEPT ![th[t].sym] = FALSE]
    /\ UNCHANGED <<scenario, alerts, dropped, counted, njobs, job, nfills, nfails>>

\* -------------------------------------------------------------- stop_grid
\* stop_grid up to the start of the cancellation loop (lines 319-329)
StopGridEnter(t) ==
    /\ t = "fe"
    /\ th[t].pc = "idle"
    /\ \E symbol \in Symbols(scenario), cancel_orders \in BOOLEAN :
        IF ~Has(active_grids, symbol)
        THEN /\ cancel_orders
             /\ ret' = Result("stop_grid", symbol, "no_active_grid", 0, 0)
             /\ UNCHANGED th
        ELSE /\ th' = [th EXCEPT ![t] = [IdleTh EXCEPT
                    !.pc = "stop_loop", !.sym = symbol,
                    !.cfg = Get(active_grids, symbol), !.i = 1,
                    !.list = IF cancel_orders
                             THEN configs[Get(active_grids, symbol)].pending_orders
                             ELSE <<>>]]
             /\ ret' = NoRet
    /\ UNCHANGED <<scenario, alerts, dropped, counted, njobs, configs, grid_configs, active_grids, store, exch, job, terminal, nfills, nfails>>

\* one self.trading.cancel_order(order['order_id']) (lines 329-332): the gateway
\* accepts, rejects, or the call raises (caught at line 357)
StopGridCancel(t) ==
    /\ th[t].pc = "stop_loop"
    /\ th[t].i <= Len(th[t].list)
    /\ LET order_id == th[t].list[th[t].i].order_id
       IN  \/ /\ exch[order_id].state = "submitted"
              /\ Commit(configs, grid_configs, active_grids, store,
                        [exch EXCEPT ![order_id].state = "canceled"],
                        [th EXCEPT ![t].i = @ + 1, ![t].cancelled = @ + 1])
              /\ ret' = NoRet
           \/ /\ Commit(configs, grid_configs, active_grids, store, exch,
                        [th EXCEPT ![t].i = @ + 1])
              /\ ret' = NoRet
           \/ /\ Commit(configs, grid_configs, active_grids, store, exch,
                        [th EXCEPT ![t] = IdleTh])
              /\ ret' = Result("stop_grid", th[t].sym, "exception", 0, 0)
    /\ UNCHANGED <<scenario, alerts, dropped, counted, njobs, job, terminal, nfills, nfails>>

\* the deactivation, the save and the return of stop_grid (lines 334-359)
StopGridFinish(t) ==
    /\ th[t].pc = "stop_loop"
    /\ th[t].i > Len(th[t].list)
    /\ LET cfgs == [configs EXCEPT ![th[t].cfg].active = FALSE,
                                   ![th[t].cfg].stopped_at = TRUE]
           thh == [th EXCEPT ![t] = IdleTh]
       IN  IF ~Has(active_grids, th[t].sym)
           THEN /\ Commit(cfgs, grid_configs, active_grids, store, exch, thh)
                /\ ret' = Result("stop_grid", th[t].sym, "exception", 0, 0)
                /\ UNCHANGED <<terminal, nfails>>
           ELSE \E save_ok \in SaveOutcomes :
                IF save_ok
                THEN /\ Commit(cfgs, grid_configs, Del(active_grids, th[t].sym),
                               Dump(cfgs, grid_configs), exch, thh)
                     /\ ret' = Result("stop_grid", th[t].sym, "success", th[t].cancelled, 0)
                     /\ terminal' = [terminal EXCEPT ![th[t].sym] = TRUE]
                     /\ UNCHANGED nfails
                ELSE /\ Commit(cfgs, grid_configs, Del(active_grids, th[t].sym),
                               store, exch, thh)
                     /\ ret' = Result("stop_grid", th[t].sym, "exception", 0, 0)
                     /\ nfails' = nfails + 1
                     /\ UNCHANGED terminal
    /\ UNCHANGED <<scenario, alerts, dropped, counted, njobs, job, nfills>>

\* --------------------------------------------------------- check_monitors
\* for symbol in grid.active_grids: the iterator is created (line 1491)
JobStart(t) ==
    /\ t = "sc"
    /\ th[t].pc = "idle"
    /\ ~job.running
    /\ njobs < Jobs(scenario)
    /\ njobs' = njobs + 1
    /\ job' = [running |-> TRUE, pos |-> 0, len |-> Used(active_grids),
               used |-> Used(active_grids),
               start |-> {<<active_grids[j].k, active_grids[j].v>> :
                            j \in {i \in 1..Len(active_grids) : active_grids[i] # Dummy}},
               seen |-> {}]
    /\ ret' = NoRet
    /\ UNCHANGED <<scenario, alerts, dropped, counted, configs, grid_configs, active_grids, store, exch, th,
                   terminal, nfills, nfails>>

\* the entries the iterator has not passed yet
Ahead(d, pos) == {j \in (pos + 1)..Len(d) : d[j] # Dummy}

\* the dict iterator's next(): RuntimeError when the dict changed size or shows
\* a key it did not expect (caught at line 1494), the end of the loop, or the
\* next key
JobNext(t) ==
    /\ t = "sc"
    /\ th[t].pc = "idle"
    /\ job.running
    /\ IF job.used # Used(active_grids)
       THEN job' = NoJob /\ UNCHANGED th
       ELSE IF Ahead(active_grids, job.pos) = {}
       THEN job' = NoJob /\ UNCHANGED th
       ELSE IF job.len = 0
       THEN job' = NoJob /\ UNCHANGED th
       ELSE LET j == CHOOSE x \in Ahead(active_grids, job.pos) :
                        \A y \in Ahead(active_grids, job.pos) : x <= y
            IN  /\ job' = [job EXCEPT !.pos = j, !.len = @ - 1,
                                       !.seen = @ \cup {active_grids[j].k}]
                /\ th' = [th EXCEPT ![t] = [IdleTh EXCEPT
                        !.pc = "update_call", !.sym = active_grids[j].k]]
    /\ ret' = NoRet
    /\ UNCHANGED <<scenario, alerts, dropped, counted, njobs, configs, grid_configs, active_grids, store, exch, terminal, nfills, nfails>>

\* ------------------------------------------------------------ update_grid
\* the checks of update_grid (lines 220-225)
UpdateGridEnter(t) ==
    /\ th[t].pc = "update_call"
    /\ LET symbol == th[t].sym
       IN  IF ~Has(active_grids, symbol)
           THEN /\ ret' = Result("update_grid", symbol, "no_active_grid", 0, 0)
                /\ th' = [th EXCEPT ![t] = IdleTh]
           ELSE IF ~configs[Get(active_grids, symbol)].active
           THEN /\ ret' = Result("update_grid", symbol, "stopped", 0, 0)
                /\ th' = [th EXCEPT ![t] = IdleTh]
           ELSE /\ ret' = NoRet
                /\ th' = [th EXCEPT ![t] = [IdleTh EXCEPT
                        !.pc = "update_loop", !.sym = symbol,
                        !.cfg = Get(active_grids, symbol), !.i = 1,
                        !.list = configs[Get(active_grids, symbol)].pending_orders]]
    /\ UNCHANGED <<scenario, alerts, dropped, counted, njobs, configs, grid_configs, active_grids, store, exch, job, terminal, nfills, nfails>>

\* the replacement for a filled order (lines 247-280)
ReplacementType(order) == IF order.type = "buy" THEN "sell" ELSE "buy"
\* (the margin left out)
ReplacementPriceSame(order) == order.price
ReplacementPrice(order) ==
    IF order.type = "buy"
    THEN RMul(order.price, SellMarginNum, MarginDen)
    ELSE RMul(order.price, BuyMarginNum, MarginDen)
\* (a filled buy credited like a sell)
OrderProfitAll(order) == RMul(order.price, order.amount, ProfitDen)
\* profit = order['amount'] * order['price'] * 0.001 for a filled sell (lines 242-244)
OrderProfit(order) ==
    IF order.type = "sell" THEN RMul(order.price, order.amount, ProfitDen) ELSE RZero

\* an order without its id (the model issues the ids of orders it no longer
\* holds again)
Key(order) == [type |-> order.type, price |-> order.price, amount |-> order.amount]
\* the order sell_limit / buy_limit is asked to place for a filled order
Request(order) ==
    [type |-> ReplacementType(order), price |-> ReplacementPrice(order),
     amount |-> order.amount]
\* (a rejected replacement listed all the same)
NewOrdersAlways(new_orders, success, order_id, order) ==
    Append(new_orders, Order(order_id, ReplacementType(order),
                             ReplacementPrice(order), order.amount))
\* if result.get('success'): new_orders.append(...) (lines 255-262, 272-279)
NewOrders(new_orders, success, order_id, order) ==
    IF success
    THEN Append(new_orders, Order(order_id, ReplacementType(order),
                                  ReplacementPrice(order), order.amount))
    ELSE new_orders
\* (the order forgotten)
KeptForgotten(updated_orders, order) == updated_orders
\* updated_orders.append(order) (line 283)
Kept(updated_orders, order) == Append(updated_orders, order)

\* one iteration of the loop over config['pending_orders'] (lines 234-283):
\* the order is found filled and its replacement is accepted or rejected, or
\* it is kept (get_order_detail returned None or another state)
UpdateGridCheck(t) ==
    /\ th[t].pc = "update_loop"
    /\ th[t].i <= Len(th[t].list)
    /\ LET order == th[t].list[th[t].i]
       IN  \/ /\ exch[order.order_id].state = "filled"
              /\ \E accepted \in BOOLEAN :
                  /\ Commit(configs, grid_configs, active_grids, store,
                            IF accepted
                            THEN Append(exch, Submitted(th[t].sym, ReplacementType(order)))
                            ELSE exch,
                            [th EXCEPT
                                ![t].i = @ + 1,
                                ![t].log = Append(@, IF accepted THEN "replaced" ELSE "filled"),
                                ![t].completed = @ + 1,
                                ![t].profit = RAdd(@, OrderProfit(order)),
                                ![t].new_orders = NewOrders(@, accepted, Len(exch) + 1, order)])
                  /\ dropped' = IF accepted THEN dropped ELSE dropped \cup {Request(order)}
                  /\ counted' = counted \cup {Key(order)}
           \/ /\ Commit(configs, grid_configs, active_grids, store, exch,
                        [th EXCEPT ![t].i = @ + 1, ![t].log = Append(@, "kept"),
                                   ![t].orders = Kept(@, order)])
              /\ dropped' = dropped
              /\ counted' = counted
    /\ ret' = NoRet
    /\ UNCHANGED <<scenario, alerts, njobs, job, terminal, nfills, nfails>>

\* (the kept orders left out)
NewPendingOnlyNew(updated_orders, new_orders) == new_orders
\* config['pending_orders'] = updated_orders + new_orders (line 286)
NewPending(updated_orders, new_orders) == updated_orders \o new_orders

\* (every fill of the tick added twice)
TallyTwice(completed_trades, completed) == completed_trades + 2 * completed
\* config['completed_trades'] += completed (line 287)
Tally(completed_trades, completed) == completed_trades + completed
\* (a replacement reported for every fill)
TickResultEven(symbol, completed, new_orders) ==
    Result("update_grid", symbol, "success", completed, completed)
\* the success result of update_grid (lines 294-302): 'completed_trades' and
\* 'new_orders'; the other fields are read from the config
TickResult(symbol, completed, new_orders) ==
    Result("update_grid", symbol, "success", completed, Len(new_orders))

\* the config update, the save and the return of update_grid (lines 285-306)
UpdateGridFinish(t) ==
    /\ th[t].pc = "update_loop"
    /\ th[t].i > Len(th[t].list)
    /\ LET cfgs == [configs EXCEPT
                ![th[t].cfg].pending_orders = NewPending(th[t].orders, th[t].new_orders),
                ![th[t].cfg].completed_trades = Tally(@, th[t].completed),
                ![th[t].cfg].total_profit = RAdd(@, th[t].profit),
                ![th[t].cfg].last_update = TRUE]
           thh == [th EXCEPT ![t] = IdleTh]
       IN  \E save_ok \in SaveOutcomes :
           IF save_ok
           THEN /\ Commit(cfgs, grid_configs, active_grids, Dump(cfgs, grid_configs),
                          exch, thh)
                /\ ret' = TickResult(th[t].sym, th[t].completed, th[t].new_orders)
                /\ UNCHANGED nfails
           ELSE /\ Commit(cfgs, grid_configs, active_grids, store, exch, thh)
                /\ ret' = Result("update_grid", th[t].sym, "exception", 0, 0)
                /\ nfails' = nfails + 1
    /\ UNCHANGED <<scenario, alerts, dropped, counted, njobs, job, terminal, nfills>>

\* ---------------------------------------------------------------- exchange
\* the exchange fills a resting order
GatewayFill ==
    /\ nfills < MaxFills
    /\ \E id \in 1..Len(exch) :
        /\ exch[id].state = "submitted"
        /\ exch' = [exch EXCEPT ![id].state = "filled"]
    /\ nfills' = nfills + 1
    /\ ret' = NoRet
    /\ UNCHANGED <<scenario, alerts, dropped, counted, njobs, configs, grid_configs, active_grids, store, th, job, terminal, nfails>>

Next ==
    \/ \E t \in Threads : CreateGridEnter(t)
    \/ \E t \in Threads : CreateGridPlace(t)
    \/ \E t \in Threads : CreateGridFinish(t)
    \/ \E t \in Threads : StopGridEnter(t)
    \/ \E t \in Threads : StopGridCancel(t)
    \/ \E t \in Threads : StopGridFinish(t)
    \/ \E t \in Threads : JobStart(t)
    \/ \E t \in Threads : JobNext(t)
    \/ \E t \in Threads : UpdateGridEnter(t)
    \/ \E t \in Threads : UpdateGridCheck(t)
    \/ \E t \in Threads : UpdateGridFinish(t)
    \/ GatewayFill

Spec == Init /\ [][Next]_vars

\* create_grid alone, over the wide menu of inputs
NextCreate ==
    \/ \E t \in Threads : CreateGridEnter(t)
    \/ \E t \in Threads : CreateGridPlace(t)
    \/ \E t \in Threads : CreateGridFinish(t)

SpecCreate == InitCreate /\ [][NextCreate]_vars

\* one grid created and then watched by the scheduler job, no stop_grid
NextTicks ==
    \/ \E t \in Threads : CreateGridEnter(t)
    \/ \E t \in Threads : CreateGridPlace(t)
    \/ \E t \in Threads : CreateGridFinish(t)
    \/ \E t \in Threads : JobStart(t)
    \/ \E t \in Threads : JobNext(t)
    \/ \E t \in Threads : UpdateGridEnter(t)
    \/ \E t \in Threads : UpdateGridCheck(t)
    \/ \E t \in Threads : UpdateGridFinish(t)
    \/ GatewayFill

SpecTicks == InitTicks /\ [][NextTicks]_vars

\* grids on two pairs, created and stopped by the front end while the
\* scheduler job runs; no order is filled
NextPairs ==
    \/ \E t \in Threads : CreateGridEnter(t)
    \/ \E t \in Threads : CreateGridPlace(t)
    \/ \E t \in Threads : CreateGridFinish(t)
    \/ \E t \in Threads : StopGridEnter(t)
    \/ \E t \in Threads : StopGridCancel(t)
    \/ \E t \in Threads : StopGridFinish(t)
    \/ \E t \in Threads : JobStart(t)
    \/ \E t \in Threads : JobNext(t)
    \/ \E t \in Threads : UpdateGridEnter(t)
    \/ \E t \in Threads : UpdateGridCheck(t)
    \/ \E t \in Threads : UpdateGridFinish(t)

SpecPairs == InitPairs /\ [][NextPairs]_vars

\* ------------------------------------------------------ load_grid_configs
\* What the constructor can find in data/grids/configs.json: no file, text that
\* is not JSON, a JSON value that is not an object, or an object whose entries
\* are config records or something else (a string, a number, a list, null).
JunkRef == -1                             \* an entry's value that is not a record
StoredConfig(symbol, active, completed_trades) ==
    [NewConfig(symbol, 4, 2, [high |-> 100, low |-> 80], 90, {}) EXCEPT
        !.active = active, !.stopped_at = ~active, !.completed_trades = completed_trades]
Entry(k, v) == [k |-> k, v |-> v]
Values(k) ==
    {[kind |-> "junk"]} \cup
    {[kind |-> "config", config |-> StoredConfig(k, active, n)] :
        active \in BOOLEAN, n \in 0..MaxStoredTrades}
ObjectFiles ==
    {<<>>} \cup
    {<<Entry(k, v)>> : k \in Pairs, v \in UNION {Values(p) : p \in Pairs}} \cup
    {<<Entry(k1, v1), Entry(k2, v2)>> :
        k1 \in Pairs, k2 \in Pairs, v1 \in UNION {Values(p) : p \in Pairs},
        v2 \in UNION {Values(p) : p \in Pairs}}
\* keys of an object are distinct and a stored config carries its own key
WellKeyed(entries) ==
    /\ \A i, j \in 1..Len(entries) : entries[i].k = entries[j].k => i = j
    /\ \A i \in 1..Len(entries) :
            entries[i].v.kind = "config" => entries[i].v.config.symbol = entries[i].k
Files ==
    {[kind |-> "missing"], [kind |-> "malformed"], [kind |-> "not_object"]} \cup
    {[kind |-> "object", entries |-> e] : e \in {x \in ObjectFiles : WellKeyed(x)}}

\* GridTradingModule.__init__ (lines 18-29) about to call load_grid_configs
InitLoad ==
    /\ scenario = "load"
    /\ configs = <<>>
    /\ grid_configs = [p \in Pairs |-> 0]
    /\ active_grids = <<>>
    /\ store \in Files
    /\ exch = <<>>
    /\ th = [t \in Threads |-> IF t = "fe" THEN [IdleTh EXCEPT !.pc = "load_open"] ELSE IdleTh]
    /\ ret = NoRet
    /\ job = NoJob
    /\ terminal = [p \in Pairs |-> FALSE]
    /\ njobs = 0
    /\ nfills = 0
    /\ nfails = 0
    /\ dropped = {}
    /\ counted = {}
    /\ alerts = <<>>

\* the config objects json.load builds, one per record entry, in file order
Parsed(entries) ==
    LET recs == SelectSeq(entries, LAMBDA e : e.v.kind = "config")
    IN  [j \in 1..Len(recs) |-> recs[j].v.config]
\* the heap id of the object built for entry i
ParsedId(entries, i) ==
    Cardinality({j \in 1..i : entries[j].v.kind = "config"})
\* self.grid_configs after json.load of an object
LoadedRefs(entries) ==
    [p \in Pairs |->
        IF \E i \in 1..Len(entries) : entries[i].k = p
        THEN LET i == CHOOSE i \in 1..Len(entries) : entries[i].k = p
             IN  IF entries[i].v.kind = "config" THEN ParsedId(entries, i) ELSE JunkRef
        ELSE 0]

\* open and json.load (lines 447-449), with the except clauses (lines 457-462)
LoadOpen(t) ==
    /\ th[t].pc = "load_open"
    /\ IF store.kind = "object"
       THEN /\ configs' = Parsed(store.entries)
            /\ grid_configs' = LoadedRefs(store.entries)
            /\ th' = [th EXCEPT ![t].pc = "load_loop", ![t].i = 1]
       ELSE \* FileNotFoundError, JSONDecodeError, or AttributeError on .items()
            /\ grid_configs' = [p \in Pairs |-> 0]
            /\ th' = [th EXCEPT ![t] = IdleTh]
            /\ UNCHANGED configs
    /\ ret' = NoRet
    /\ UNCHANGED <<scenario, alerts, dropped, counted, active_grids, store, exch, job, terminal, njobs, nfills, nfails>>

\* one iteration of 'for symbol, config in self.grid_configs.items()' (lines
\* 452-454); config.get on a value that is no dict raises (caught at line 460)
LoadEntry(t) ==
    /\ th[t].pc = "load_loop"
    /\ th[t].i <= Len(store.entries)
    /\ LET e == store.entries[th[t].i]
           gc0 == [p \in Pairs |-> 0]
       IN  IF e.v.kind = "junk"
           THEN /\ grid_configs' = gc0
                /\ active_grids' = active_grids
                /\ th' = [th EXCEPT ![t] = IdleTh]
                /\ configs' = Sweep(configs, gc0, active_grids, [th EXCEPT ![t] = IdleTh])
           ELSE /\ active_grids' = IF e.v.config.active
                                   THEN Put(active_grids, e.k, grid_configs[e.k])
                                   ELSE active_grids
                /\ th' = [th EXCEPT ![t].i = @ + 1]
                /\ UNCHANGED <<configs, grid_configs>>
    /\ ret' = NoRet
    /\ UNCHANGED <<scenario, alerts, dropped, counted, store, exch, job, terminal, njobs, nfills, nfails>>

\* the end of the loop and of load_grid_configs (line 456)
LoadDone(t) ==
    /\ th[t].pc = "load_loop"
    /\ th[t].i > Len(store.entries)
    /\ th' = [th EXCEPT ![t] = IdleTh]
    /\ ret' = NoRet
    /\ UNCHANGED <<scenario, alerts, dropped, counted, configs, grid_configs, active_grids, store, exch, job,
                   terminal, njobs, nfills, nfails>>

NextLoad ==
    \/ \E t \in Threads : LoadOpen(t)
    \/ \E t \in Threads : LoadEntry(t)
    \/ \E t \in Threads : LoadDone(t)

\* the constructor alone, over what the file can hold
SpecLoad == InitLoad /\ [][NextLoad]_vars

\* ----------------------------------------------------- check_4hour_update
Abs(x) == IF x < 0 THEN 0 - x ELSE x
\* what get_4hour_range can return while a check runs: None, or the high and
\* low of the latest 4-hour candle
Candles(sc) ==
    IF sc = "load"
    THEN {NoRange} \cup
         {[high |-> h, low |-> l] : h \in {95, 100, 105, 106}, l \in {75, 76, 80, 84}}
    ELSE {NoRange, [high |-> 108, low |-> 98]}
\* <<bound, new>> among the values above where the drift is exactly 5% and the
\* float quotient abs(new - bound) / bound comes out above 0.05:
\* abs(0.0105 - 0.01) / 0.01 and abs(0.0095 - 0.01) / 0.01 evaluate to
\* 0.050000000000000044 and abs(0.0076 - 0.008) / 0.008 to 0.050000000000000024,
\* while abs(0.0084 - 0.008) / 0.008 evaluates to 0.04999999999999991
QuotientAbove5 == {<<100, 105>>, <<100, 95>>, <<80, 76>>}
\* abs(new - bound) / bound > 0.05 (lines 420-421)
Exceeds(new, bound) ==
    \/ DriftDen * Abs(new - bound) > bound
    \/ DriftDen * Abs(new - bound) = bound /\ <<bound, new>> \in QuotientAbove5
\* the condition under which a notification is appended (lines 416, 420-421)
Drifted(range_info, config) ==
    /\ range_info # NoRange
    /\ \/ Exceeds(range_info.high, config.price_upper)
       \/ Exceeds(range_info.low, config.price_lower)
CheckedConfigAdjusted(config, range_info) ==
    IF Drifted(range_info, config)
    THEN [config EXCEPT !.price_upper = range_info.high, !.price_lower = range_info.low]
    ELSE config
\* the config after the loop body has looked at it (lines 417-429): only read
CheckedConfig(config, range_info) == config

\* the scheduler's 4-hour job calls check_4hour_update (bot lines 1498-1501)
\* once the engine is constructed: notifications = [] and the iterator over
\* self.active_grids (lines 412-414)
CheckStart(t) ==
    /\ t = "sc"
    /\ th[t].pc = "idle"
    /\ th["fe"].pc \notin {"load_open", "load_loop"}
    /\ th' = [th EXCEPT ![t] = [IdleTh EXCEPT
                !.pc = "check_loop",
                !.it = [len |-> Used(active_grids), used |-> Used(active_grids)]]]
    /\ ret' = NoRet
    /\ UNCHANGED <<scenario, alerts, dropped, counted, configs, grid_configs, active_grids, store, exch, job,
                   terminal, njobs, nfills, nfails>>

\* the dict iterator's next() at line 414: RuntimeError when the dict changed
\* size or shows a key it did not expect (it leaves check_4hour_update and is
\* caught at bot line 1500), or the next key
CheckStep(t) ==
    /\ th[t].pc = "check_loop"
    /\ th[t].it.used # Used(active_grids) \/ Ahead(active_grids, th[t].i) # {}
    /\ IF th[t].it.used # Used(active_grids) \/ th[t].it.len = 0
       THEN /\ th' = [th EXCEPT ![t] = IdleTh]
            /\ ret' = Result("check_4hour_update", "", "exception", 0, 0)
       ELSE LET j == CHOOSE x \in Ahead(active_grids, th[t].i) :
                        \A y \in Ahead(active_grids, th[t].i) : x <= y
            IN  /\ th' = [th EXCEPT ![t].pc = "check_range", ![t].i = j,
                                    ![t].sym = active_grids[j].k, ![t].it.len = @ - 1]
                /\ ret' = NoRet
    /\ UNCHANGED <<scenario, alerts, dropped, counted, configs, grid_configs, active_grids, store, exch, job,
                   terminal, njobs, nfills, nfails>>

\* the body of the loop (lines 415-429) with the oracle's answer: nothing for
\* None, KeyError when the pair has left active_grids meanwhile, else the
\* comparison
CheckLook(t) ==
    /\ th[t].pc = "check_range"
    /\ \E range_info \in Candles(scenario) :
        IF range_info = NoRange
        THEN /\ th' = [th EXCEPT ![t].pc = "check_loop",
                        ![t].log = Append(@, [sym |-> th[t].sym, range |-> range_info,
                                              note |-> FALSE])]
             /\ ret' = NoRet
             /\ UNCHANGED configs
        ELSE IF ~Has(active_grids, th[t].sym)
        THEN /\ th' = [th EXCEPT ![t] = IdleTh]
             /\ ret' = Result("check_4hour_update", "", "exception", 0, 0)
             /\ UNCHANGED configs
        ELSE LET id == Get(active_grids, th[t].sym)
             IN  /\ configs' = [configs EXCEPT ![id] = CheckedConfig(@, range_info)]
                 /\ th' = [th EXCEPT ![t].pc = "check_loop",
                            ![t].log = Append(@, [sym |-> th[t].sym, range |-> range_info,
                                                  note |-> Drifted(range_info, configs[id])])]
                 /\ ret' = NoRet
    /\ UNCHANGED <<scenario, alerts, dropped, counted, grid_configs, active_grids, store, exch, job, terminal,
                   njobs, nfills, nfails>>

\* the return of check_4hour_update (lines 431-434): 'checked' and the number
\* of notifications
CheckReturn(t) ==
    /\ th[t].pc = "check_loop"
    /\ th[t].it.used = Used(active_grids)
    /\ Ahead(active_grids, th[t].i) = {}
    /\ ret' = Result("check_4hour_update", "", "success", Used(active_grids),
                     Len(SelectSeq(th[t].log, LAMBDA e : e.note)))
    /\ th' = [th EXCEPT ![t] = IdleTh]
    /\ UNCHANGED <<scenario, alerts, dropped, counted, configs, grid_configs, active_grids, store, exch, job,
                   terminal, njobs, nfills, nfails>>

NextCheck ==
    \/ \E t \in Threads : CheckStart(t)
    \/ \E t \in Threads : CheckStep(t)
    \/ \E t \in Threads : CheckLook(t)
    \/ \E t \in Threads : CheckReturn(t)

NextDrift == NextLoad \/ NextCheck

\* the constructor followed by runs of the 4-hour check
SpecDrift == InitLoad /\ [][NextDrift]_vars

\* the two threads of the bot with the 4-hour check among the scheduler's jobs
NextEngine == Next \/ NextCheck

SpecEngine == Init /\ [][NextEngine]_vars

\* ----------------------------------------------------------- monitor.py
\* The alert operations of MonitorModule, called one at a time.  An alert keeps
\* the fields the operations below read: id, type, user_id, triggered and, for
\* a price alert, alert_type and target_price (in units of 0.0001).
Users == {"7", "8"}
NoUser == ""                              \* user_id=None
AlertTypes == {"above", "below", "sideways"}
Targets == {100}
Closes == {99, 100, 101}                  \* ticker['close'] at a check
Alert(id, type, symbol, user_id, alert_type, target_price) ==
    [id |-> id, type |-> type, symbol |-> symbol, user_id |-> user_id,
     alert_type |-> alert_type, target_price |-> target_price, triggered |-> FALSE]
\* 'id': len(self.alerts) + 1 (lines 55, 132, 179)
NextAlertId(list) == Len(list) + 1
\* the duplicate check of add_price_alert (lines 77-86)
SamePriceAlert(existing, alert) ==
    /\ existing.type = "price"
    /\ existing.symbol = alert.symbol
    /\ existing.target_price = alert.target_price
    /\ existing.alert_type = alert.alert_type
    /\ existing.user_id = alert.user_id
    /\ ~existing.triggered
GridUnchanged ==
    UNCHANGED <<scenario, dropped, counted, configs, grid_configs, active_grids, store,
                exch, th, job, terminal, njobs, nfills, nfails>>

\* add_price_alert (lines 33-115)
AddPriceAlert ==
    /\ \E alert_type \in AlertTypes, user_id \in Users, target_price \in Targets :
        LET alert == Alert(NextAlertId(alerts), "price", "btcusdt", user_id, alert_type,
                           target_price)
        IN  IF alert_type \notin {"above", "below", "cross"}
            THEN /\ ret' = Result("add_price_alert", "", "invalid_type", 0, 0)
                 /\ UNCHANGED alerts
            ELSE IF \E j \in 1..Len(alerts) : SamePriceAlert(alerts[j], alert)
            THEN /\ ret' = Result("add_price_alert", "", "duplicate", 0, 0)
                 /\ UNCHANGED alerts
            ELSE /\ Len(alerts) < MaxAlerts
                 /\ alerts' = Append(alerts, alert)
                 /\ ret' = Result("add_price_alert", "", "success", alert.id, 0)
    /\ GridUnchanged

\* add_volume_alert (lines 117-162)
AddVolumeAlert ==
    /\ Len(alerts) < MaxAlerts
    /\ \E user_id \in Users :
        /\ alerts' = Append(alerts, Alert(NextAlertId(alerts), "volume", "btcusdt", user_id, "", 0))
        /\ ret' = Result("add_volume_alert", "", "success", NextAlertId(alerts), 0)
    /\ GridUnchanged

\* add_change_alert (lines 164-216)
AddChangeAlert ==
    /\ Len(alerts) < MaxAlerts
    /\ \E user_id \in Users :
        /\ alerts' = Append(alerts, Alert(NextAlertId(alerts), "change", "btcusdt", user_id, "", 0))
        /\ ret' = Result("add_change_alert", "", "success", NextAlertId(alerts), 0)
    /\ GridUnchanged

\* remove_alert (lines 264-308)
RemoveAlert ==
    /\ \E alert_id \in 1..MaxAlerts, user_id \in Users \cup {NoUser} :
        LET found == {j \in 1..Len(alerts) : alerts[j].id = alert_id}
            first == CHOOSE j \in found : \A k \in found : j <= k
        IN  IF found = {}
            THEN /\ ret' = Result("remove_alert", "", "not_found", alert_id, 0)
                 /\ UNCHANGED alerts
            ELSE IF user_id # NoUser /\ alerts[first].user_id # user_id
            THEN /\ ret' = Result("remove_alert", "", "no_permission", alert_id, 0)
                 /\ UNCHANGED alerts
            ELSE /\ alerts' = SelectSeq(alerts, LAMBDA a : a.id # alert_id)
                 /\ ret' = Result("remove_alert", "", "success", alert_id, 0)
    /\ GridUnchanged

\* check_price_alerts (lines 310-363) with _trigger_alert (lines 410-447): the
\* price alerts the close has reached are marked triggered
CheckPriceAlerts ==
    /\ \E close \in Closes :
        alerts' = [j \in 1..Len(alerts) |->
            IF /\ alerts[j].type = "price" /\ ~alerts[j].triggered
               /\ \/ alerts[j].alert_type = "above" /\ close >= alerts[j].target_price
                  \/ alerts[j].alert_type = "below" /\ close <= alerts[j].target_price
            THEN [alerts[j] EXCEPT !.triggered = TRUE]
            ELSE alerts[j]]
    /\ ret' = NoRet
    /\ GridUnchanged

\* clear_triggered_alerts (lines 501-523)
ClearTriggeredAlerts ==
    /\ \E user_id \in Users \cup {NoUser} :
        LET kept == SelectSeq(alerts, LAMBDA a :
                        IF user_id # NoUser
                        THEN ~a.triggered \/ a.user_id # user_id
                        ELSE ~a.triggered)
        IN  /\ alerts' = kept
            /\ ret' = Result("clear_triggered_alerts", "", "success",
                             Len(alerts) - Len(kept), Len(kept))
    /\ GridUnchanged

NextMonitor ==
    \/ AddPriceAlert
    \/ AddVolumeAlert
    \/ AddChangeAlert
    \/ RemoveAlert
    \/ CheckPriceAlerts
    \/ ClearTriggeredAlerts

SpecMonitor == InitMonitor /\ [][NextMonitor]_vars

\* ================================================================== claims
ConfigIds == 1..Len(configs)
\* the pair's registered config is active
HasActiveGrid(p) == grid_configs[p] # 0 /\ configs[grid_configs[p]].active
\* a create_grid(p) call takes its first step
CreateCalled(p) ==
    /\ th["fe"].pc = "idle"
    /\ \/ ret'.op = "create_grid" /\ ret'.sym = p
       \/ th'["fe"].pc = "create_loop" /\ th'["fe"].sym = p

\* C1: a pair never has two active configs, and create_grid for a pair whose
\* grid is active returns the 'already active' error and registers nothing.
C1_SingleActive ==
    /\ [](\A p \in Pairs :
            Cardinality({id \in ConfigIds : configs[id].symbol = p /\ configs[id].active}) <= 1)
    /\ [][\A p \in Pairs : CreateCalled(p) /\ HasActiveGrid(p) =>
            /\ ret'.tag = "already_active"
            /\ UNCHANGED <<configs, grid_configs, active_grids, store, exch>>]_vars
\* a create_grid call was refused because the pair's grid is active
C1_Witness ==
    /\ ret.op = "create_grid" /\ ret.tag = "already_active"
    /\ HasActiveGrid(ret.sym)

\* C2 as claimed: once stop_grid(p) has succeeded the pair is not in the active
\* set, and until a create_grid(p) returns success every update_grid(p) fails
\* with 'no active grid'.
C2_StopIsTerminal ==
    /\ [](ret.op = "stop_grid" /\ ret.tag = "success" => ~Has(active_grids, ret.sym))
    /\ [][\A p \in Pairs :
            (/\ terminal[p]
             /\ th["fe"].pc = "idle"
             /\ th["sc"].pc = "update_call" /\ th["sc"].sym = p
             /\ th'["sc"].pc # "update_call")
            => ret'.op = "update_grid" /\ ret'.tag = "no_active_grid"]_vars

\* C3 as claimed: a stop_grid call on an active pair that cancels orders ends
\* with the config inactive, stopped_at recorded and the pair out of the active
\* set, whatever the cancellation calls did.
C3_StopDeactivates ==
    [][(th["fe"].pc = "stop_loop" /\ th'["fe"].pc = "idle") =>
        /\ ~configs'[th["fe"].cfg].active
        /\ configs'[th["fe"].cfg].stopped_at
        /\ ~Has(active_grids', th["fe"].sym)]_vars

\* C4 as claimed: update_grid(p) on the scheduler thread is never in progress
\* while stop_grid(p) is in progress on the front-end thread.
C4_OneReconciliation ==
    \A p \in Pairs :
        ~(/\ th["sc"].pc = "update_loop" /\ th["sc"].sym = p
          /\ th["fe"].pc = "stop_loop" /\ th["fe"].sym = p)

\* a stop_grid call was cut short by a cancellation call that raised
C3_Reached ==
    /\ ret.op = "stop_grid" /\ ret.tag = "exception"
    /\ HasActiveGrid(ret.sym) /\ Has(active_grids, ret.sym)

\* ---- update_grid returning (its last step), on the scheduler thread
UpdateReturns == th["sc"].pc = "update_loop" /\ th'["sc"].pc = "idle"
\* the config update_grid works on is still the pair's registered config
Registered == grid_configs[th["sc"].sym] = th["sc"].cfg
PendingAfter == configs'[th["sc"].cfg].pending_orders
HasOrder(list, type, price, amount) ==
    \E j \in 1..Len(list) :
        list[j].type = type /\ list[j].price = price /\ list[j].amount = amount
\* the pending orders of this call that the gateway reported filled
FoundFilled == {j \in 1..Len(th["sc"].list) : th["sc"].log[j] # "kept"}
\* those of them whose replacement the gateway accepted
Replaced == {j \in 1..Len(th["sc"].list) : th["sc"].log[j] = "replaced"}
\* the offsetting order of a filled one is pending after the call
Rearmed(j) ==
    LET o == th["sc"].list[j]
    IN  IF o.type = "buy"
        THEN HasOrder(PendingAfter, "sell", RMul(o.price, 1005, 1000), o.amount)
        ELSE HasOrder(PendingAfter, "buy", RMul(o.price, 995, 1000), o.amount)
CountedOnce ==
    configs'[th["sc"].cfg].completed_trades =
        configs[th["sc"].cfg].completed_trades + Cardinality(FoundFilled)

\* C5 as claimed: when update_grid returns, every pending order it found filled
\* has its offsetting order (sell at p * 1.005 for a buy at p, buy at p * 0.995
\* for a sell at p, same amount) in the pending set, and completed_trades has grown
\* by one for each.
C5_EveryFillReplaced ==
    [][UpdateReturns /\ Registered =>
        (\A j \in FoundFilled : Rearmed(j)) /\ CountedOnce]_vars

\* C5, amended: the same for every filled order whose replacement the gateway
\* accepted; a filled order whose replacement is rejected is still counted.
C5_AcceptedFillReplaced ==
    [][UpdateReturns /\ Registered =>
        (\A j \in Replaced : Rearmed(j)) /\ CountedOnce]_vars
\* update_grid has returned after re-arming the filled buy at 98 with a sell at 98.49
C5_Witness ==
    /\ ret.op = "update_grid" /\ ret.tag = "success" /\ ret.n >= 1 /\ ret.m >= 1
    /\ grid_configs[ret.sym] # 0
    /\ HasOrder(configs[grid_configs[ret.sym]].pending_orders, "sell", Rat(49245, 500), 2)
    /\ configs[grid_configs[ret.sym]].completed_trades >= 1

\* C6: when update_grid found every pending order still resting, it returns with
\* pending_orders equal to the list it read (same orders, same order) and
\* completed_trades and total_profit as they were, and none of its steps has
\* submitted an order.
C6_NoFillNoChange ==
    /\ [][(UpdateReturns /\ Registered /\ FoundFilled = {}) =>
            /\ PendingAfter = th["sc"].list
            /\ configs'[th["sc"].cfg].completed_trades = configs[th["sc"].cfg].completed_trades
            /\ configs'[th["sc"].cfg].total_profit = configs[th["sc"].cfg].total_profit
            /\ th["sc"].new_orders = <<>>]_vars
    /\ [][(th["sc"].pc = "update_loop" /\ th'["sc"].pc = "update_loop"
           /\ th'["sc"].log = Append(th["sc"].log, "kept")) => exch' = exch]_vars
\* update_grid has returned from a tick over resting orders only
C6_Witness ==
    /\ ret.op = "update_grid" /\ ret.tag = "success" /\ ret.n = 0 /\ ret.m = 0
    /\ grid_configs[ret.sym] # 0
    /\ Len(configs[grid_configs[ret.sym]].pending_orders) >= 2
    /\ configs[grid_configs[ret.sym]].last_update

\* ---- create_grid's initial orders
\* 0.99 * c <= p <= 1.01 * c, p and c in units of 0.0001
InDeadBand(p, c) ==
    IF c % 100 = 0
    THEN 99 * (c \div 100) <= p /\ p <= 101 * (c \div 100)
    ELSE 99 * c <= 100 * p /\ 100 * p <= 101 * c
\* p < 0.99 * c
UnderBand(p, c) == IF c % 100 = 0 THEN p < 99 * (c \div 100) ELSE 100 * p < 99 * c
\* p > 1.01 * c
OverBand(p, c) == IF c % 100 = 0 THEN p > 101 * (c \div 100) ELSE 100 * p > 101 * c
\* create_grid is placing the initial orders of the config it registered
Placing == th["fe"].pc = "create_loop"
PlacingConfig == configs[th["fe"].cfg]
\* the loop over grid_prices has passed every level
LadderDone == Placing /\ th["fe"].i > Len(PlacingConfig.grid_prices)

\* C7 as claimed: no order create_grid submits, and no pending order it records, lies at a
\* level p with 0.99 * c <= p <= 1.01 * c, c the current price of the call.
C7_DeadBand ==
    /\ Placing =>
        /\ \A j \in 1..Len(th["fe"].calls) :
                ~InDeadBand(th["fe"].calls[j].price, PlacingConfig.current_price)
        /\ \A j \in 1..Len(th["fe"].orders) :
                ~InDeadBand(th["fe"].orders[j].price.n, PlacingConfig.current_price)
    /\ \A id \in ConfigIds : \A j \in 1..Len(configs[id].pending_orders) :
            ~InDeadBand(configs[id].pending_orders[j].price.n, configs[id].current_price)
\* create_grid has submitted an order for a level on the upper edge of the band
C7_Reached ==
    /\ Placing
    /\ \E j \in 1..Len(th["fe"].calls) :
            /\ PlacingConfig.current_price % 100 = 0
            /\ th["fe"].calls[j].price = 101 * (PlacingConfig.current_price \div 100)

\* C8 as claimed: every order create_grid submits or records is a buy exactly when its price
\* is < 0.99 * c and a sell exactly when its price is > 1.01 * c.
C8_SideCorrect ==
    /\ Placing =>
        /\ \A j \in 1..Len(th["fe"].calls) :
            LET call == th["fe"].calls[j]
            IN  /\ call.type = "buy" <=> UnderBand(call.price, PlacingConfig.current_price)
                /\ call.type = "sell" <=> OverBand(call.price, PlacingConfig.current_price)
        /\ \A j \in 1..Len(th["fe"].orders) :
            LET o == th["fe"].orders[j]
            IN  /\ o.type = "buy" <=> UnderBand(o.price.n, PlacingConfig.current_price)
                /\ o.type = "sell" <=> OverBand(o.price.n, PlacingConfig.current_price)
    /\ \A id \in ConfigIds : \A j \in 1..Len(configs[id].pending_orders) :
            LET o == configs[id].pending_orders[j]
            IN  /\ o.type = "buy" <=> UnderBand(o.price.n, configs[id].current_price)
                /\ o.type = "sell" <=> OverBand(o.price.n, configs[id].current_price)
\* create_grid has submitted a buy for a level on the lower edge of the band
C8_Reached ==
    /\ Placing
    /\ \E j \in 1..Len(th["fe"].calls) :
            /\ th["fe"].calls[j].type = "buy"
            /\ PlacingConfig.current_price % 100 = 0
            /\ th["fe"].calls[j].price = 99 * (PlacingConfig.current_price \div 100)

\* C9 as claimed: the grid_prices of every config create_grid builds from
\* price_upper > price_lower > 0 and grid_count >= 2 has grid_count + 1 entries,
\* is strictly increasing, starts at price_lower and ends at price_upper.
C9_GridSpacing ==
    \A id \in ConfigIds :
        LET config == configs[id]
            prices == config.grid_prices
        IN  (config.symbol # "" /\ config.grid_count >= 2
             /\ config.price_upper > config.price_lower /\ config.price_lower > 0) =>
                /\ Len(prices) = config.grid_count + 1
                /\ \A j \in 1..(Len(prices) - 1) : prices[j] < prices[j + 1]
                /\ prices[1] = config.price_lower
                /\ prices[Len(prices)] = config.price_upper

\* ---- the worked example
\* grid_count = 10 over 30000..40000 at 35000, every order accepted so far
ExampleRun ==
    /\ LadderDone
    /\ PlacingConfig.grid_count = 10
    /\ PlacingConfig.price_lower = 300000000
    /\ PlacingConfig.price_upper = 400000000
    /\ PlacingConfig.current_price = 350000000
    /\ Len(th["fe"].orders) = Len(th["fe"].calls)

\* C10 as claimed: the worked example places 11 initial orders.
C10_ElevenOrders == ExampleRun => Len(th["fe"].orders) = 11

\* C10, amended: the worked example's ladder is 30000, 31000, ..., 40000; its
\* level 35000 lies inside the dead band 34650..35350 and is skipped, and 10
\* initial orders are placed: buys at 30000..34000 and sells at 36000..40000.
C10_TenOrders ==
    ExampleRun =>
        /\ PlacingConfig.grid_prices = [j \in 1..11 |-> 300000000 + 10000000 * (j - 1)]
        /\ InDeadBand(PlacingConfig.grid_prices[6], 350000000)
        /\ Len(th["fe"].orders) = 10
        /\ \A j \in 1..5 :
            /\ th["fe"].orders[j].type = "buy"
            /\ th["fe"].orders[j].price = RInt(PlacingConfig.grid_prices[j])
            /\ th["fe"].orders[j + 5].type = "sell"
            /\ th["fe"].orders[j + 5].price = RInt(PlacingConfig.grid_prices[j + 6])
\* the worked example's loop has ended with every order accepted
C10_Witness == ExampleRun /\ Len(th["fe"].orders) > 0

\* ---- create_grid's checks
\* the configs that are or were registered
Built == {id \in ConfigIds : configs[id].symbol # ""}

\* C11 as claimed: create_grid builds no config from price_upper <= price_lower,
\* from grid_count < 2 or from amount_per_grid <= 0.
C11_InputValidation ==
    \A id \in Built :
        /\ configs[id].price_upper > configs[id].price_lower
        /\ configs[id].grid_count >= 2
        /\ configs[id].amount_per_grid > 0

\* a create_grid call has just been refused by one of its checks
Refused == ret.op = "create_grid" /\ ret.arg # NoArg
OutOfRange(in) == in.ticker > in.range.high \/ in.ticker < in.range.low

\* C12: create_grid with the pair active, the range or the ticker unavailable, or
\* the current price outside [price_lower, price_upper] returns the matching
\* error and leaves grid_configs, active_grids, the configs and the exchange as
\* they were; a current price on either bound is not refused as out of range,
\* and no config is ever built from such inputs.
C12_Preconditions ==
    /\ [][Refused' =>
            /\ HasActiveGrid(ret'.sym) => ret'.tag = "already_active"
            /\ (~HasActiveGrid(ret'.sym) /\ ret'.arg.range = NoRange) =>
                    ret'.tag \in {"range_unavailable", "bounds_missing"}
            /\ (~HasActiveGrid(ret'.sym) /\ ret'.arg.range # NoRange
                    /\ ret'.arg.ticker = NoTicker) => ret'.tag = "ticker_unavailable"
            /\ (~HasActiveGrid(ret'.sym) /\ ret'.arg.range # NoRange
                    /\ ret'.arg.ticker # NoTicker
                    /\ ret'.arg.range.high > ret'.arg.range.low) =>
                    (ret'.tag = "price_out_of_range" <=> OutOfRange(ret'.arg))
            /\ ret'.tag \in {"already_active", "range_unavailable", "ticker_unavailable",
                             "price_out_of_range"} =>
                    UNCHANGED <<configs, grid_configs, active_grids, store, exch>>]_vars
    /\ [](\A id \in Built :
            /\ configs[id].price_lower <= configs[id].current_price
            /\ configs[id].current_price <= configs[id].price_upper
            /\ configs[id].current_price # NoTicker
            /\ configs[id].price_upper # 0)
\* create_grid has refused a current price just above the upper bound
C12_Witness ==
    /\ Refused /\ ret.tag = "price_out_of_range"
    /\ ret.arg.ticker = ret.arg.range.high + 1
\* a config was built with the current price on its upper bound
C12_OnBound == \E id \in Built : configs[id].current_price = configs[id].price_upper

\* ---- create_grid returning from the loop over the levels (its last step)
CreateReturns == th["fe"].pc = "create_loop" /\ th'["fe"].pc = "idle"
\* the submissions of this call that the gateway accepted, in order
AcceptedCalls == SelectSeq(th["fe"].calls, LAMBDA call : call.accepted)

\* C13: create_grid succeeds whatever the gateway accepted; when it returns,
\* pending_orders holds exactly the accepted orders, in order, the rejected ones
\* are absent, the returned count is the number accepted and every accepted order
\* is still on the exchange, not cancelled.
C13_PartialNotRolledBack ==
    [][CreateReturns =>
        LET pending == configs'[th["fe"].cfg].pending_orders
            amount == configs[th["fe"].cfg].amount_per_grid
        IN  /\ ret'.op = "create_grid" /\ ret'.tag = "success"
            /\ ret'.n = Len(AcceptedCalls)
            /\ Len(pending) = Len(AcceptedCalls)
            /\ \A k \in 1..Len(pending) :
                /\ pending[k].type = AcceptedCalls[k].type
                /\ pending[k].price = RInt(AcceptedCalls[k].price)
                /\ pending[k].amount = amount
                /\ pending[k].order_id \in 1..Len(exch')
                /\ exch'[pending[k].order_id].state \in {"submitted", "filled"}
            /\ \A k, l \in 1..Len(pending) :
                pending[k].order_id = pending[l].order_id => k = l]_vars
\* create_grid has returned success with one order accepted and one rejected
C13_Witness ==
    /\ ret.op = "create_grid" /\ ret.tag = "success" /\ ret.n = 1
    /\ grid_configs[ret.sym] # 0
    /\ Len(configs[grid_configs[ret.sym]].pending_orders) = 1
    /\ Len(configs[grid_configs[ret.sym]].grid_prices) = 5

\* ---- the constructor has returned from load_grid_configs
Loaded == scenario = "load" /\ th["fe"].pc = "idle"
\* the file holds an object whose entries are all config records
Readable == store.kind = "object" /\ \A i \in 1..Len(store.entries) : store.entries[i].v.kind = "config"
StoredActive == {store.entries[i].k : i \in {j \in 1..Len(store.entries) : store.entries[j].v.config.active}}

\* C14 as claimed: after load_grid_configs the active set is exactly the stored
\* configs flagged active, and with an absent or unreadable store (missing file,
\* malformed content, an entry that is no config record) grid_configs and
\* active_grids are both empty.
C14_StartupRecovery ==
    Loaded =>
        IF Readable
        THEN /\ Keys(active_grids) = StoredActive
             /\ \A i \in 1..Len(store.entries) :
                    /\ grid_configs[store.entries[i].k] # 0
                    /\ configs[grid_configs[store.entries[i].k]] = store.entries[i].v.config
             /\ \A p \in Keys(active_grids) : Get(active_grids, p) = grid_configs[p]
        ELSE /\ grid_configs = [p \in Pairs |-> 0]
             /\ Keys(active_grids) = {}
\* the load was cut short by an entry that is no config record, after an active one
C14_Reached ==
    /\ Loaded /\ ~Readable
    /\ grid_configs = [p \in Pairs |-> 0]
    /\ Keys(active_grids) # {}

\* ---- stopped configs
\* the pair's entry in grid_configs is a stopped config
StoppedEntry(p) == grid_configs[p] # 0 /\ configs[grid_configs[p]].stopped_at

\* C15 as claimed: a stopped config stays the pair's entry in grid_configs, with
\* active = false and the completed_trades and total_profit it had, whatever
\* create_grid, update_grid and stop_grid calls follow.
C15_StoppedRetained ==
    [][\A p \in Pairs : StoppedEntry(p) =>
        /\ grid_configs'[p] = grid_configs[p]
        /\ ~configs'[grid_configs[p]].active
        /\ configs'[grid_configs[p]].completed_trades = configs[grid_configs[p]].completed_trades
        /\ configs'[grid_configs[p]].total_profit = configs[grid_configs[p]].total_profit]_vars

\* a step of check_4hour_update
CheckSteps == th["sc"].pc \in {"check_loop", "check_range"} \/ th'["sc"].pc = "check_loop"

\* C16: no step of check_4hour_update changes a config, grid_configs,
\* active_grids, the exchange's orders or the stored file, whatever range the
\* oracle returns.
C16_AdvisoryOnly ==
    [][CheckSteps => UNCHANGED <<configs, grid_configs, active_grids, exch, store>>]_vars
\* a check that found a drifted range has returned
C16_Witness == ret.op = "check_4hour_update" /\ ret.m > 0

\* the entry of the running check's record for its j-th pair
Checked(j) == th["sc"].log[j]
CheckedBounds(j) == configs[Get(active_grids, Checked(j).sym)]
\* more than 5% between the new and the old bound, in exact arithmetic
Over5(new, bound) == DriftDen * Abs(new - bound) > bound

\* C17 as claimed: a pair gets a notification exactly when a range is
\* available and the high or the low is more than 5% away from the config's
\* bound (exactly 5% is not), and no pair is looked at twice in one check.
C17_DriftThreshold ==
    /\ \A j \in 1..Len(th["sc"].log) :
            Checked(j).note <=>
                /\ Checked(j).range # NoRange
                /\ \/ Over5(Checked(j).range.high, CheckedBounds(j).price_upper)
                   \/ Over5(Checked(j).range.low, CheckedBounds(j).price_lower)
    /\ \A j, k \in 1..Len(th["sc"].log) : Checked(j).sym = Checked(k).sym => j = k
\* a check met a high exactly 5% above the upper bound with the low in place
C17_Reached ==
    \E j \in 1..Len(th["sc"].log) :
        /\ Checked(j).range # NoRange
        /\ DriftDen * (Checked(j).range.high - CheckedBounds(j).price_upper)
                = CheckedBounds(j).price_upper
        /\ Checked(j).range.low = CheckedBounds(j).price_lower

\* an operation of the engine has just returned success
Succeeded == ret.op \in {"create_grid", "update_grid", "stop_grid"} /\ ret.tag = "success"

\* C18 as claimed: when create_grid, update_grid or stop_grid returns success
\* the pair's record in data/grids/configs.json equals the pair's config in
\* memory, pending_orders included.
C18_PersistenceTracks ==
    Succeeded =>
        /\ grid_configs[ret.sym] # 0
        /\ store[ret.sym] = configs[grid_configs[ret.sym]]
\* create_grid returned success with initial orders in the config
C18_Reached ==
    /\ ret.op = "create_grid" /\ ret.tag = "success"
    /\ grid_configs[ret.sym] # 0
    /\ configs[grid_configs[ret.sym]].pending_orders # <<>>

\* ---- update_grid over two runs of the scheduler job
\* the pending orders of this call found filled whose replacement was rejected
Rejected == {j \in 1..Len(th["sc"].list) : th["sc"].log[j] = "filled"}
\* a step of update_grid that asks the gateway for a replacement order
Attempts ==
    /\ th["sc"].pc = "update_loop" /\ th'["sc"].pc = "update_loop"
    /\ Len(th'["sc"].log) = Len(th["sc"].log) + 1
    /\ th'["sc"].log[Len(th'["sc"].log)] # "kept"
Attempted == Request(th["sc"].list[th["sc"].i])

\* C19: when update_grid returns, an order it found filled whose replacement
\* the gateway rejected is out of pending_orders and counted in
\* completed_trades, nothing was added for it (the pending list is shorter by
\* one for each such order), no later step of update_grid asks for a rejected
\* replacement again, and none is ever among a config's pending orders.
C19_RejectedReplacement ==
    /\ [][UpdateReturns /\ Registered =>
            /\ \A j \in Rejected :
                    /\ th["sc"].list[j].order_id \notin Ids(PendingAfter)
                    /\ ~HasOrder(PendingAfter, Request(th["sc"].list[j]).type,
                                 Request(th["sc"].list[j]).price,
                                 Request(th["sc"].list[j]).amount)
            /\ CountedOnce
            /\ Len(PendingAfter) = Len(th["sc"].list) - Cardinality(Rejected)]_vars
    /\ [][Attempts => Attempted \notin dropped]_vars
    /\ [](\A id \in ConfigIds : \A d \in dropped :
            ~HasOrder(configs[id].pending_orders, d.type, d.price, d.amount))
\* the job's second run starts on a grid whose earlier run had a replacement
\* rejected: the filled order is counted and the pending list is one short
C19_Witness ==
    /\ njobs = 2
    /\ th["sc"].pc = "update_loop" /\ th["sc"].log = <<>> /\ th["sc"].list # <<>>
    /\ dropped # {}
    /\ configs[th["sc"].cfg].completed_trades >= 1
    /\ Len(th["sc"].list) < Len(exch)

\* a step of update_grid that keeps the order it looked at
Keeps ==
    /\ th["sc"].pc = "update_loop" /\ th'["sc"].pc = "update_loop"
    /\ th'["sc"].log = Append(th["sc"].log, "kept")
\* the pending orders of this call that were kept
Unanswered == {j \in 1..Len(th["sc"].list) : th["sc"].log[j] = "kept"}
\* update_grid passes its checks and reads the pending orders
UpdateStarts == th["sc"].pc = "update_call" /\ th'["sc"].pc = "update_loop"

\* C20: the step of update_grid whose status query fails or returns nothing
\* places no order and counts nothing; when update_grid returns, every such
\* order is in pending_orders as it was, completed_trades has grown only by the
\* orders found filled and total_profit only by their profit; and every call
\* of update_grid reads the whole of pending_orders and queries each order in
\* it, so the order is queried again on the next tick.
C20_LookupFailureKeeps ==
    /\ [][Keeps =>
            /\ exch' = exch
            /\ th'["sc"].completed = th["sc"].completed
            /\ th'["sc"].profit = th["sc"].profit
            /\ th'["sc"].new_orders = th["sc"].new_orders]_vars
    /\ [][UpdateReturns /\ Registered =>
            /\ \A j \in Unanswered :
                    \E k \in 1..Len(PendingAfter) : PendingAfter[k] = th["sc"].list[j]
            /\ CountedOnce
            /\ configs'[th["sc"].cfg].total_profit =
                    RAdd(configs[th["sc"].cfg].total_profit, th["sc"].profit)
            /\ Len(th["sc"].log) = Len(th["sc"].list)]_vars
    /\ [][UpdateStarts =>
            th'["sc"].list = configs[Get(active_grids, th["sc"].sym)].pending_orders]_vars
\* the job's second run has found filled an order that its first run kept
\* without counting anything
C20_Witness ==
    /\ njobs = 2
    /\ th["sc"].pc = "update_loop" /\ th["sc"].log # <<>>
    /\ th["sc"].log[1] # "kept"
    /\ configs[th["sc"].cfg].last_update
    /\ configs[th["sc"].cfg].completed_trades = 0

\* ---- C21..C30
REq(p, q) == p.n * q.d = q.n * p.d
\* amount * price * 0.001 summed over the first n orders of the list that were
\* found filled and are sells
RECURSIVE SellProfit(_, _, _)
SellProfit(list, log, n) ==
    IF n = 0 THEN RZero
    ELSE RAdd(SellProfit(list, log, n - 1),
              IF log[n] # "kept" /\ list[n].type = "sell"
              THEN Rat(list[n].amount * list[n].price.n, 1000 * list[n].price.d)
              ELSE RZero)

\* C21: when update_grid returns, total_profit has grown by amount * price *
\* 0.001 summed over the sells it found filled (a filled buy adds nothing), and
\* no step ever lowers the total_profit of a config that stays in memory.
C21_ProfitOnSells ==
    /\ [][UpdateReturns /\ Registered =>
            REq(configs'[th["sc"].cfg].total_profit,
                RAdd(configs[th["sc"].cfg].total_profit,
                     SellProfit(th["sc"].list, th["sc"].log, Len(th["sc"].list))))]_vars
    /\ [][\A id \in ConfigIds :
            configs'[id] # Freed =>
                ~RLess(configs'[id].total_profit, configs[id].total_profit)]_vars
\* a tick found the buy at 98 and the sell at 102 filled: only the sell counts
C21_Witness ==
    /\ ret.op = "update_grid" /\ ret.n = 2
    /\ grid_configs[ret.sym] # 0
    /\ configs[grid_configs[ret.sym]].total_profit = Rat(51, 250)
    /\ configs[grid_configs[ret.sym]].completed_trades = 2

\* C22: when update_grid returns success, 'completed_trades' is the number of
\* pending orders it found filled and 'new_orders' the number of replacements
\* the gateway accepted, new_orders <= completed_trades, the pending list is as
\* long as the list read at entry minus the first plus the second, and the
\* config's completed_trades has grown by the first.
C22_TickAccounting ==
    [][UpdateReturns /\ Registered /\ ret'.tag = "success" =>
        /\ ret'.n = Cardinality(FoundFilled)
        /\ ret'.m = Cardinality(Replaced)
        /\ ret'.m <= ret'.n
        /\ Len(PendingAfter) = Len(th["sc"].list) - ret'.n + ret'.m
        /\ configs'[th["sc"].cfg].completed_trades =
                configs[th["sc"].cfg].completed_trades + ret'.n]_vars
\* a tick that found two orders filled and had one replacement accepted
C22_Witness ==
    /\ ret.op = "update_grid" /\ ret.tag = "success" /\ ret.n = 2 /\ ret.m = 1
    /\ grid_configs[ret.sym] # 0
    /\ Len(configs[grid_configs[ret.sym]].pending_orders) = 1

\* 'active_orders' of get_grid_status(symbol) (line 381)
StatusActiveOrders(symbol) == Len(configs[grid_configs[symbol]].pending_orders)
\* the pending orders of the pair's config that the gateway has cancelled
CancelledPending(symbol) ==
    {j \in 1..Len(configs[grid_configs[symbol]].pending_orders) :
        exch[configs[grid_configs[symbol]].pending_orders[j].order_id].state = "canceled"}

\* C23 as claimed: when stop_grid has returned success, no order whose
\* cancellation the gateway accepted is in the config's pending_orders, and the
\* status report's active_orders counts none of them.
C23_CancelledLeavePending ==
    (ret.op = "stop_grid" /\ ret.tag = "success" /\ grid_configs[ret.sym] # 0) =>
        /\ CancelledPending(ret.sym) = {}
        /\ StatusActiveOrders(ret.sym) =
                Len(configs[grid_configs[ret.sym]].pending_orders)
                    - Cardinality(CancelledPending(ret.sym))
\* stop_grid has returned success after the gateway accepted a cancellation
C23_Reached ==
    /\ ret.op = "stop_grid" /\ ret.tag = "success" /\ ret.n >= 1
    /\ grid_configs[ret.sym] # 0
    /\ ~configs[grid_configs[ret.sym]].active

\* C24: completed_trades of every config is a non-negative integer, no step of
\* create_grid, update_grid, stop_grid or check_4hour_update lowers it on a
\* config that stays in memory, and a config that create_grid has just built
\* has it at 0.
C24_CompletedMonotonic ==
    /\ [](\A id \in ConfigIds : configs[id].completed_trades \in Nat)
    /\ [][\A id \in ConfigIds :
            configs'[id] # Freed =>
                configs'[id].completed_trades >= configs[id].completed_trades]_vars
    /\ [][\A id \in (1..Len(configs')) \ ConfigIds :
            configs'[id].completed_trades = 0]_vars
\* a 4-hour check has returned with a grid in memory that counted a fill and
\* was stopped afterwards
C24_Witness ==
    /\ ret.op = "check_4hour_update" /\ ret.tag = "success"
    /\ \E id \in ConfigIds : configs[id].completed_trades >= 1 /\ configs[id].stopped_at

\* the configs of grids that a successful stop_grid has stopped
Stopped ==
    {id \in ConfigIds : configs[id].stopped_at /\ ~configs[id].active
                        /\ terminal[configs[id].symbol]}
\* update_grid submits a replacement order on behalf of config id
SubmitsFor(id) ==
    /\ th["sc"].pc = "update_loop" /\ th["sc"].cfg = id
    /\ th'["sc"].new_orders # th["sc"].new_orders

\* C25 as claimed: once stop_grid has returned success for a grid, no step
\* submits an order for that grid or changes its config's pending_orders,
\* completed_trades or total_profit, also when an update_grid of the scheduler
\* thread was in progress when stop_grid ran.
C25_NoTradingAfterStop ==
    [][\A id \in Stopped :
        /\ ~SubmitsFor(id)
        /\ configs'[id] # Freed =>
            /\ configs'[id].pending_orders = configs[id].pending_orders
            /\ configs'[id].completed_trades = configs[id].completed_trades
            /\ configs'[id].total_profit = configs[id].total_profit]_vars
\* stop_grid returned success while update_grid was working on the same config
C25_Reached ==
    /\ ret.op = "stop_grid" /\ ret.tag = "success"
    /\ th["sc"].pc = "update_loop" /\ th["sc"].cfg = grid_configs[ret.sym]
    /\ th["sc"].list # <<>>

\* create_grid has just returned an error for a pair that had no active grid
CreateFailed ==
    /\ ret.op = "create_grid"
    /\ ret.tag \notin {"success", "already_active", "none"}

\* C26 as claimed: when create_grid returns an error for a pair that had no
\* active grid, the pair has no active grid afterwards (it is not in
\* active_grids and its registered config, if any, is not active), so the next
\* create_grid for it is not refused as already active.
C26_FailedCreateLeavesNothing ==
    CreateFailed => ~Has(active_grids, ret.sym) /\ ~HasActiveGrid(ret.sym) /\ ~IsActive(ret.sym)
\* create_grid returned the error of a failed write of the store
C26_Reached == ret.op = "create_grid" /\ ret.tag = "exception" /\ nfails = 1

\* 'active_grids' of the status report of all grids (line 401) and the number
\* of listed grids flagged active (lines 389-396)
StatusActiveGrids == Used(active_grids)
StatusFlaggedActive == Cardinality({p \in Pairs : grid_configs[p] > 0 /\ configs[grid_configs[p]].active})

\* C27 as claimed: between operations, the keys of active_grids are the pairs
\* whose grid_configs entry is a config with active = true, active_grids[pair]
\* is the same object as grid_configs[pair], and the status report's
\* 'active_grids' equals the number of listed grids flagged active.
C27_RegistryConsistent ==
    (\A t \in Threads : th[t].pc = "idle") =>
        /\ Keys(active_grids) = {p \in Pairs : grid_configs[p] > 0 /\ configs[grid_configs[p]].active}
        /\ \A p \in Keys(active_grids) : Get(active_grids, p) = grid_configs[p]
        /\ StatusActiveGrids = StatusFlaggedActive
\* the constructor has finished with a pair in active_grids
C27_Reached ==
    /\ scenario = "load" /\ \A t \in Threads : th[t].pc = "idle"
    /\ Keys(active_grids) # {}

\* a run of check_monitors ends (the loop is over or the exception is caught)
JobEnds == job.running /\ ~job'.running
\* the pairs whose grid was active when the run began and still is
ActiveThroughout ==
    {e[1] : e \in {x \in job.start :
        /\ Has(active_grids, x[1])
        /\ Get(active_grids, x[1]) = x[2]
        /\ configs[x[2]].active}}

\* C28 as claimed: when a run of check_monitors ends, update_grid has been
\* called in it for every pair whose grid was active for the whole run, whatever
\* create_grid or stop_grid the front-end thread executed for other pairs
\* meanwhile.
C28_EveryActiveReconciled ==
    [][JobEnds => ActiveThroughout \subseteq job.seen]_vars
\* the run has called update_grid for one pair, the other pair is still ahead
\* and the front end has stopped the first meanwhile
C28_Reached ==
    /\ job.running /\ job.seen # {} /\ Cardinality(job.start) = 2
    /\ job.used # Used(active_grids)
    /\ ActiveThroughout \ job.seen # {}

\* a step of update_grid that counts the order it looked at as filled
Counts ==
    /\ th["sc"].pc = "update_loop" /\ th'["sc"].pc = "update_loop"
    /\ th'["sc"].completed = th["sc"].completed + 1
\* the fills the running tick has counted and not yet added to the config
InHand == IF th["sc"].pc = "update_loop" THEN th["sc"].completed ELSE 0

\* C29: over the ticks on a grid, update_grid never counts an order it has
\* counted before and never asks for the replacement of an order it has
\* counted before, and the grid's completed_trades (with the fills the running
\* tick has in hand) is the number of orders counted, also after a tick that
\* ended in an error result.
C29_FillProcessedOnce ==
    /\ [][Counts => Key(th["sc"].list[th["sc"].i]) \notin counted]_vars
    /\ [][Attempts => Attempted \notin {Request(o) : o \in counted}]_vars
    /\ [](IF ConfigIds = {} THEN counted = {}
          ELSE \A id \in ConfigIds :
                configs[id].completed_trades + InHand = Cardinality(counted))
\* the job's second run starts after a first run that counted a fill and ended
\* in an error result
C29_Witness ==
    /\ njobs = 2 /\ nfails = 1
    /\ th["sc"].pc = "update_loop" /\ th["sc"].log = <<>> /\ th["sc"].list # <<>>
    /\ counted # {}
    /\ configs[th["sc"].cfg].completed_trades = Cardinality(counted)

\* C30 as claimed: no two stored alerts have the same id, and a remove_alert
\* that succeeds removes exactly one alert.
C30_AlertIdsUnique ==
    /\ [](\A i, j \in 1..Len(alerts) : alerts[i].id = alerts[j].id => i = j)
    /\ [][(ret'.op = "remove_alert" /\ ret'.tag = "success") =>
            Len(alerts') = Len(alerts) - 1]_vars
\* an alert has been added after the removal of an earlier one
C30_Reached ==
    /\ ret.op \in {"add_price_alert", "add_volume_alert", "add_change_alert"}
    /\ ret.tag = "success"
    /\ Len(alerts) >= 2
    /\ alerts[1].id > 1

=============================================================================
